---- MODULE Spec2Model ----
(***************************************************************************)
(* Model of src/src/iup/element.rs: the Element trait, the generic Handle  *)
(* and its downcast, and the destruction hook on_element_destroy.          *)
(*                                                                         *)
(* The native object system (iup_sys), the callback registry               *)
(* (callback::drop_callbacks) and the macros errchk!, string_from_c_str!   *)
(* are not part of element.rs; they are modelled from spec.md sections     *)
(* 4.3 and 6 and are marked as such where they are defined.                *)
(*                                                                         *)
(* A function of the source that touches native state is an operator that  *)
(* takes the state it reads and returns a record: its result and the new   *)
(* value of everything it may write.  The actions apply these operators to *)
(* inputs drawn from small sets.                                           *)
(*                                                                         *)
(* Every IUP entry point requires a valid Ihandle: a call of the native    *)
(* system on a destroyed handle is outside its contract, so the actions    *)
(* that call into the native system draw their handle from the live ones.  *)
(* Raw addresses are not reused after a destroy.                           *)
(***************************************************************************)
EXTENDS Integers, Sequences, FiniteSets, TLC

\* ------------------------------------------------------------- bounds
\* Handles the native system allocates.
MaxHandles == 2
\* from_raw calls (with a handle that is not null) the application makes.
MaxRegCalls == 2

\* ------------------------------------------------------------- values
Null == 0
Handles == 1..MaxHandles
\* The callbacks the application registers: two of the callback traits
\* impl_element_nofrom! gives every wrapper type.
Callbacks == {"MAP_CB", "HELP_CB"}

\* A Rust &str / String is the sequence of its bytes; a C string is the
\* same bytes followed by the NUL terminator.
NUL == 0
c_str(bytes) == bytes \o <<NUL>>

\* CStr::to_bytes: the bytes before the terminator.
to_bytes(cstr) == SubSeq(cstr, 1, Len(cstr) - 1)

\* str::as_bytes.
as_bytes(str) == str

str_dialog == <<100, 105, 97, 108, 111, 103>>
str_button == <<98, 117, 116, 116, 111, 110>>
str_flatbutton == <<102, 108, 97, 116>> \o str_button
str_image == <<105, 109, 97, 103, 101>>
str_imagergb == str_image \o <<114, 103, 98>>
str_iuprusthandle ==
    <<95, 95, 105, 117, 112, 114, 117, 115, 116, 104, 97, 110, 100, 108, 101>>

\* The class names the native system may report for a live handle.  Two of
\* them share a suffix or a prefix with the target of a wrapper type.
NativeClasses == {str_dialog, str_button, str_flatbutton, str_imagergb}

\* The wrapper types: Handle (line 113) and three instances of impl_element!.
Types == {"Handle", "Dialog", "Button", "Image"}

target_classname(ty) ==
    CASE ty = "Handle" -> str_iuprusthandle
      [] ty = "Dialog" -> str_dialog
      [] ty = "Button" -> str_button
      [] ty = "Image" -> str_image

\* A wrapper is $ty_path(ih): its type and the one raw handle it holds.
Wrapper(ty, ih) == [ty |-> ty, raw |-> ih]
NoWrapper == [ty |-> "none", raw |-> Null]

\* Results of the operations.
Ret(tag, w) == [tag |-> tag, w |-> w]
Unit == Ret("Unit", NoWrapper)
Panic == Ret("Panic", NoWrapper)

VARIABLES
    allocated,  \* native: handles 1..allocated have been allocated
    live,       \* native: the handles not yet destroyed
    classOf,    \* native: handle -> class name (a C string)
    parent,     \* native: handle -> its parent, or Null
    hook,       \* native: the handles whose DESTROY_CB is on_element_destroy
    regCalls,   \* native: handle -> number of IupSetCallback(h, "DESTROY_CB") calls
    registry,   \* callback.rs: handle -> its registered callbacks (no entry: not in DOMAIN)
    attrs,      \* native: handle -> stored value of the attribute (a C string), or NullPtr
    last        \* the last operation, its arguments and what it returned

vars == <<allocated, live, classOf, parent, hook, regCalls, registry, attrs, last>>

\* The whole state as one record: what the operators below read and return.
State ==
    [allocated |-> allocated, live |-> live, classOf |-> classOf,
     parent |-> parent, hook |-> hook, regCalls |-> regCalls,
     registry |-> registry, attrs |-> attrs]

\* A null pointer where a C string is expected: a C string is never empty,
\* it holds at least its terminator.
NullPtr == <<>>

\* ------------------------------------------------ native object system
\* IupSetCallback(ih, "DESTROY_CB", on_element_destroy): installs the
\* destruction notification; regCalls is the counting stub of this call.
IupSetCallback(ih, s) ==
    [s EXCEPT !.hook = @ \cup {ih}, !.regCalls[ih] = @ + 1]

\* IupGetClassName(ih): the live class name, a C string.
IupGetClassName(ih, s) == s.classOf[ih]

\* IupGetAttribute(ih, cname): the stored value, or a null pointer.
IupGetAttribute(ih, cname, s) == s.attrs[ih][cname]

\* IupSetStrAttribute(ih, cname, cvalue) and IupSetAttribute(ih, cname, NULL).
IupSetAttribute(ih, cname, cvalue, s) ==
    [s EXCEPT !.attrs[ih][cname] = cvalue]

\* Whether handle h is a, or is attached somewhere below a.
RECURSIVE IsUnder(_, _, _)
IsUnder(h, a, par) ==
    h = a \/ (par[h] # Null /\ IsUnder(par[h], a, par))

\* ih and everything attached below it: what a destroy of ih tears down.
Subtree(ih, s) == {h \in s.live : IsUnder(h, ih, s.parent)}

\* IupResetAttribute(ih, cname): removes the attribute from the element and
\* from the elements attached below it.
IupResetAttribute(ih, cname, s) ==
    [s EXCEPT !.attrs = [h \in Handles |->
                           IF h \in Subtree(ih, s)
                           THEN [@[h] EXCEPT ![cname] = NullPtr]
                           ELSE @[h]]]

\* IupUnmap(ih) and IupHide(ih): no status code, and no effect on the
\* state kept here.
IupUnmap(ih, s) == s

IupHide(ih, s) == s

\* ------------------------------------------------------- callback.rs
\* callback::drop_callbacks(ih): releases every callback registered for ih
\* and removes its entry; without an entry it does nothing.
drop_callbacks(ih, reg) == [h \in DOMAIN reg \ {ih} |-> reg[h]]

\* Registering a callback on a handle creates its entry or adds to it.
add_callback(ih, cb, reg) ==
    [h \in DOMAIN reg \cup {ih} |->
        IF h = ih
        THEN (IF ih \in DOMAIN reg THEN reg[ih] ELSE {}) \cup {cb}
        ELSE reg[h]]

\* ----------------------------------------------------- element.rs
\* impl_element_nofrom!: dup, raw, from_raw_unchecked.
dup(self) == Wrapper(self.ty, self.raw)

raw(self) == self.raw

from_raw_unchecked(ty, ih) == Wrapper(ty, ih)

\* Handle::from_element.
from_element(elem) == Wrapper("Handle", raw(elem))

\* Element::classname.
classname(self, s) == IupGetClassName(raw(self), s)

\* Variants of can_downcast: the terminator kept in the comparison; a
\* prefix match; the sentinel clause left out.
can_downcast_with_nul(self, E, s) ==
    LET lhs == classname(self, s)
        rhs == as_bytes(target_classname(E))
    IN  lhs = rhs \/ rhs = str_iuprusthandle

can_downcast_prefix(self, E, s) ==
    LET lhs == to_bytes(classname(self, s))
        rhs == as_bytes(target_classname(E))
    IN  \/ (Len(rhs) <= Len(lhs) /\ SubSeq(lhs, 1, Len(rhs)) = rhs)
        \/ rhs = str_iuprusthandle

can_downcast_nosentinel(self, E, s) ==
    LET lhs == to_bytes(classname(self, s))
        rhs == as_bytes(target_classname(E))
    IN  lhs = rhs

\* Handle::can_downcast.
can_downcast(self, E, s) ==
    LET lhs == to_bytes(classname(self, s))
        rhs == as_bytes(target_classname(E))
    IN  lhs = rhs \/ rhs = str_iuprusthandle

\* Variant of try_downcast: the wrapper built through from_raw, which
\* registers the hook again.
try_downcast_rehook(self, E, s) ==
    IF can_downcast(self, E, s)
    THEN [ret |-> Ret("Ok", from_raw_unchecked(E, raw(self))),
          s |-> IupSetCallback(raw(self), s)]
    ELSE [ret |-> Ret("Err", self), s |-> s]

\* Handle::try_downcast.
try_downcast(self, E, s) ==
    IF can_downcast(self, E, s)
    THEN [ret |-> Ret("Ok", from_raw_unchecked(E, raw(self))), s |-> s]
    ELSE [ret |-> Ret("Err", self), s |-> s]

\* Element::from_handle.
from_handle(E, handle, s) == try_downcast(handle, E, s)

\* Variants of from_raw: no null check; no hook registration.
from_raw_nocheck(ty, ih, s) ==
    IF ih = Null
    THEN [ret |-> Ret("Value", from_raw_unchecked(ty, ih)), s |-> s]
    ELSE [ret |-> Ret("Value", from_raw_unchecked(ty, ih)),
          s |-> IupSetCallback(ih, s)]

from_raw_nohook(ty, ih, s) ==
    IF ih = Null
    THEN [ret |-> Panic, s |-> s]
    ELSE [ret |-> Ret("Value", from_raw_unchecked(ty, ih)), s |-> s]

\* Element::from_raw.
from_raw(ty, ih, s) ==
    IF ih = Null
    THEN [ret |-> Panic, s |-> s]
    ELSE [ret |-> Ret("Value", from_raw_unchecked(ty, ih)),
          s |-> IupSetCallback(ih, s)]

\* Variants of on_element_destroy: drop_callbacks not called; every
\* handle's callbacks dropped.
on_element_destroy_nodrop(ih, reg) ==
    [ret |-> "Default", registry |-> reg]

on_element_destroy_dropall(ih, reg) ==
    [ret |-> "Default", registry |-> <<>>]

\* on_element_destroy: the destruction notification.
on_element_destroy(ih, reg) ==
    [ret |-> "Default", registry |-> drop_callbacks(ih, reg)]

\* ------------------------------------------- attributes, map and show
\* CString::new(s): fails on an interior NUL byte; unwrap() then panics.
CString_new(str) ==
    IF \E i \in 1..Len(str) : str[i] = NUL
    THEN [ok |-> FALSE, c |-> NullPtr]
    ELSE [ok |-> TRUE, c |-> c_str(str)]

\* String::from_utf8_lossy on the bytes this model uses: an ASCII byte is
\* kept, the byte 0xFF is never valid UTF-8 and becomes U+FFFD (EF BF BD).
RECURSIVE from_utf8_lossy(_)
from_utf8_lossy(bytes) ==
    IF bytes = <<>> THEN <<>>
    ELSE (IF Head(bytes) < 128 THEN <<Head(bytes)>> ELSE <<239, 191, 189>>)
         \o from_utf8_lossy(Tail(bytes))

\* string_from_c_str!: the String of a C string that is not null.
string_from_c_str(cvalue) == from_utf8_lossy(to_bytes(cvalue))

\* errchk!: a native status code as a Result.  The macro is defined outside
\* element.rs, which does not say which status codes it turns into Err: the
\* result is kept as the macro applied to the status code, uninterpreted.
errchk(status) == [tag |-> "errchk", w |-> NoWrapper, status |-> status]

\* IupMap(ih) and IupShow(ih): the native system decides the status code;
\* calls is the counting stub of the call.
IupMap(ih, status, calls) == [status |-> status, calls |-> calls + 1]

IupShow(ih, status, calls) == [status |-> status, calls |-> calls + 1]

\* Element::set_attrib.
set_attrib(self, name, value, s) ==
    LET cname == CString_new(name)
        cvalue == CString_new(value)
    IN  IF ~cname.ok \/ ~cvalue.ok
        THEN [ret |-> Panic, s |-> s]
        ELSE [ret |-> Ret("Value", dup(self)),
              s |-> IupSetAttribute(raw(self), cname.c, cvalue.c, s)]

\* Variant of attrib: an empty native string taken for no value.
attrib_empty_is_none(self, name, s) ==
    LET cname == CString_new(name)
    IN  IF ~cname.ok
        THEN [ret |-> Panic, val |-> <<>>]
        ELSE LET cvalue == IupGetAttribute(raw(self), cname.c, s)
             IN  IF cvalue = NullPtr \/ to_bytes(cvalue) = <<>>
                 THEN [ret |-> Ret("None", NoWrapper), val |-> <<>>]
                 ELSE [ret |-> Ret("Some", NoWrapper),
                       val |-> string_from_c_str(cvalue)]

\* Element::attrib.
attrib(self, name, s) ==
    LET cname == CString_new(name)
    IN  IF ~cname.ok
        THEN [ret |-> Panic, val |-> <<>>]
        ELSE LET cvalue == IupGetAttribute(raw(self), cname.c, s)
             IN  IF cvalue = NullPtr
                 THEN [ret |-> Ret("None", NoWrapper), val |-> <<>>]
                 ELSE [ret |-> Ret("Some", NoWrapper),
                       val |-> string_from_c_str(cvalue)]

\* Element::clear_attrib.
clear_attrib(self, name, s) ==
    LET cname == CString_new(name)
    IN  IF ~cname.ok
        THEN [ret |-> Panic, s |-> s]
        ELSE [ret |-> Unit,
              s |-> IupSetAttribute(raw(self), cname.c, NullPtr, s)]

\* Element::reset_attrib.
reset_attrib(self, name, s) ==
    LET cname == CString_new(name)
    IN  IF ~cname.ok
        THEN [ret |-> Panic, s |-> s]
        ELSE [ret |-> Unit,
              s |-> IupResetAttribute(raw(self), cname.c, s)]

\* Element::unmap.
unmap(self, s) == [ret |-> Unit, s |-> IupUnmap(raw(self), s)]

\* Element::hide.
hide(self, s) == [ret |-> Unit, s |-> IupHide(raw(self), s)]

\* Element::map.
map(self, status) ==
    LET r == IupMap(raw(self), status, 0)
    IN  [ret |-> errchk(r.status), self |-> self, calls |-> r.calls]

\* Element::show.
show(self, status) ==
    LET r == IupShow(raw(self), status, 0)
    IN  [ret |-> errchk(r.status), self |-> self, calls |-> r.calls]

\* ---------------------------------------- native teardown (IupDestroy)
\* Children are torn down before their parent (a child is allocated after
\* the parent it is attached to).
RECURSIVE TeardownOrder(_)
TeardownOrder(S) ==
    IF S = {} THEN <<>>
    ELSE LET m == CHOOSE x \in S : \A y \in S : y <= x
         IN  <<m>> \o TeardownOrder(S \ {m})

\* The native system calls the DESTROY_CB of each handle it tears down,
\* where one is installed.  Returns the registry and the handles notified.
RECURSIVE NotifyAll(_, _, _, _)
NotifyAll(order, hk, reg, fired) ==
    IF order = <<>> THEN [registry |-> reg, fired |-> fired]
    ELSE LET h == Head(order)
         IN  IF h \in hk
             THEN NotifyAll(Tail(order), hk,
                            on_element_destroy(h, reg).registry,
                            Append(fired, h))
             ELSE NotifyAll(Tail(order), hk, reg, fired)

IupDestroy(ih, s) ==
    LET torn == Subtree(ih, s)
        n == NotifyAll(TeardownOrder(torn), s.hook, s.registry, <<>>)
    IN  [s |-> [s EXCEPT
                  !.live = @ \ torn,
                  !.hook = @ \ torn,
                  !.classOf = [h \in Handles |-> IF h \in torn THEN NullPtr ELSE @[h]],
                  !.parent = [h \in Handles |-> IF h \in torn THEN Null ELSE @[h]],
                  !.registry = n.registry],
         fired |-> n.fired]

\* Element::destroy.
destroy(self, s) ==
    LET d == IupDestroy(raw(self), s)
    IN  [ret |-> Unit, s |-> d.s, fired |-> d.fired]

\* ------------------------------------------------------------ actions
Wrappers(types, hs) == {Wrapper(ty, h) : ty \in types, h \in hs}

\* No status code: the operation returns none.
NoStatus == <<>>

LastFwd(op, self, ret, name, val, calls, status) ==
    [op |-> op, ty |-> self.ty, h |-> self.raw, ret |-> ret, fired |-> <<>>,
     name |-> name, val |-> val, calls |-> calls, status |-> status,
     purged |-> {}]

Last(op, ty, h, ret, fired) ==
    [op |-> op, ty |-> ty, h |-> h, ret |-> ret, fired |-> fired,
     name |-> <<>>, val |-> <<>>, calls |-> 0, status |-> NoStatus,
     purged |-> {}]

\* The last operation with the handles whose registry entry it removed.
LastPurge(op, ty, h, ret, fired, reg) ==
    [Last(op, ty, h, ret, fired) EXCEPT !.purged = DOMAIN registry \ DOMAIN reg]

Apply(s) ==
    /\ allocated' = s.allocated
    /\ live' = s.live
    /\ classOf' = s.classOf
    /\ parent' = s.parent
    /\ hook' = s.hook
    /\ regCalls' = s.regCalls
    /\ registry' = s.registry
    /\ attrs' = s.attrs

RECURSIVE Sum(_, _)
Sum(f, S) ==
    IF S = {} THEN 0
    ELSE LET x == CHOOSE y \in S : TRUE IN f[x] + Sum(f, S \ {x})

\* The native system allocates a handle of some class, detached or attached
\* to a live parent.
Create(classes, parents) ==
    /\ allocated < MaxHandles
    /\ \E c \in classes, p \in parents \cup {Null} :
         LET h == allocated + 1
         IN  /\ allocated' = h
             /\ live' = live \cup {h}
             /\ classOf' = [classOf EXCEPT ![h] = c_str(c)]
             /\ parent' = [parent EXCEPT ![h] = p]
             /\ last' = Last("create", "none", h, Unit, <<>>)
    /\ UNCHANGED <<hook, regCalls, registry, attrs>>

FromRaw(types) ==
    \E ty \in types, ih \in live \cup {Null} :
        /\ ih # Null => Sum(regCalls, Handles) < MaxRegCalls
        /\ LET r == from_raw(ty, ih, State)
           IN  /\ Apply(r.s)
               /\ last' = Last("from_raw", ty, ih, r.ret, <<>>)

FromRawUnchecked(types) ==
    \E ty \in types, ih \in 1..allocated :
        /\ last' = Last("from_raw_unchecked", ty, ih,
                        Ret("Value", from_raw_unchecked(ty, ih)), <<>>)
        /\ Apply(State)

Dup(types) ==
    \E w \in Wrappers(types, 1..allocated) :
        /\ last' = Last("dup", w.ty, raw(w), Ret("Value", dup(w)), <<>>)
        /\ Apply(State)

FromElement(types) ==
    \E w \in Wrappers(types, 1..allocated) :
        /\ last' = Last("from_element", w.ty, raw(w),
                        Ret("Value", from_element(w)), <<>>)
        /\ Apply(State)

TryDowncast(types) ==
    \E w \in Wrappers(types, live), E \in types :
        LET r == try_downcast(from_element(w), E, State)
        IN  /\ Apply(r.s)
            /\ last' = Last("try_downcast", E, raw(w), r.ret, <<>>)

FromHandle(types) ==
    \E handle \in Wrappers({"Handle"}, live), E \in types :
        LET r == from_handle(E, handle, State)
        IN  /\ Apply(r.s)
            /\ last' = Last("from_handle", E, raw(handle), r.ret, <<>>)

Destroy(types) ==
    \E w \in Wrappers(types, live) :
        LET r == destroy(w, State)
        IN  /\ Apply(r.s)
            /\ last' = LastPurge("destroy", w.ty, raw(w), r.ret, r.fired,
                                 r.s.registry)

\* A callback is registered on a live handle (callback.rs).
RegisterCallback ==
    \E h \in live, cb \in Callbacks :
        /\ registry' = add_callback(h, cb, registry)
        /\ last' = Last("set_callback", "none", h, Unit, <<>>)
        /\ UNCHANGED <<allocated, live, classOf, parent, hook, regCalls, attrs>>

\* The destruction notification is invoked for a handle, as a stub of the
\* native system does: also for one without entry, also a second time.
Notify ==
    \E h \in 1..allocated :
        LET r == on_element_destroy(h, registry)
        IN  /\ registry' = r.registry
            /\ last' = LastPurge("notify", "none", h, Ret(r.ret, NoWrapper),
                                 <<h>>, r.registry)
            /\ UNCHANGED <<allocated, live, classOf, parent, hook, regCalls, attrs>>

\* ------------------------------------------- attribute and status inputs
str_title == <<84, 73, 84, 76, 69>>

\* The attribute the native system stores, by its C name.
AttrNames == {c_str(str_title)}

\* The names and values (Rust strings) the application passes: one of each
\* holds an interior NUL byte.
NameInputs == {str_title, <<84, NUL, 84>>}
ValueInputs == {<<>>, <<65>>, <<65, NUL, 66>>}

\* What the native system may hold for an attribute: nothing, the empty
\* string, an ASCII string, a string that is not UTF-8.
NativeValues == {NullPtr, c_str(<<>>), c_str(<<65>>), c_str(<<255>>)}

\* The wrapper types the attribute and display calls are made on.
FwdTypes == {"Handle", "Dialog"}

\* The status codes IupMap and IupShow may return.
StatusCodes == {-1, 0, 1}

SetAttrib ==
    \E w \in Wrappers(FwdTypes, live), name \in NameInputs, value \in ValueInputs :
        LET r == set_attrib(w, name, value, State)
        IN  /\ Apply(r.s)
            /\ last' = LastFwd("set_attrib", w, r.ret, name, value, 0, NoStatus)

Attrib ==
    \E w \in Wrappers(FwdTypes, live), name \in NameInputs :
        LET r == attrib(w, name, State)
        IN  /\ Apply(State)
            /\ last' = LastFwd("attrib", w, r.ret, name, r.val, 0, NoStatus)

ClearAttrib ==
    \E w \in Wrappers(FwdTypes, live), name \in NameInputs :
        LET r == clear_attrib(w, name, State)
        IN  /\ Apply(r.s)
            /\ last' = LastFwd("clear_attrib", w, r.ret, name, <<>>, 0, NoStatus)

ResetAttrib ==
    \E w \in Wrappers(FwdTypes, live), name \in NameInputs :
        LET r == reset_attrib(w, name, State)
        IN  /\ Apply(r.s)
            /\ last' = LastFwd("reset_attrib", w, r.ret, name, <<>>, 0, NoStatus)

Unmap ==
    \E w \in Wrappers(FwdTypes, live) :
        LET r == unmap(w, State)
        IN  /\ Apply(r.s)
            /\ last' = LastFwd("unmap", w, r.ret, <<>>, <<>>, 0, NoStatus)

Hide ==
    \E w \in Wrappers(FwdTypes, live) :
        LET r == hide(w, State)
        IN  /\ Apply(r.s)
            /\ last' = LastFwd("hide", w, r.ret, <<>>, <<>>, 0, NoStatus)

Map ==
    \E w \in Wrappers(FwdTypes, live), status \in StatusCodes :
        LET r == map(w, status)
        IN  /\ Apply(State)
            /\ last' = LastFwd("map", r.self, r.ret, <<>>, <<>>, r.calls, <<status>>)

Show ==
    \E w \in Wrappers(FwdTypes, live), status \in StatusCodes :
        LET r == show(w, status)
        IN  /\ Apply(State)
            /\ last' = LastFwd("show", r.self, r.ret, <<>>, <<>>, r.calls, <<status>>)

Init ==
    /\ allocated = 0
    /\ live = {}
    /\ classOf = [h \in Handles |-> NullPtr]
    /\ parent = [h \in Handles |-> Null]
    /\ hook = {}
    /\ regCalls = [h \in Handles |-> 0]
    /\ registry = <<>>
    /\ attrs = [h \in Handles |-> [n \in AttrNames |-> NullPtr]]
    /\ last = Last("init", "none", Null, Unit, <<>>)

\* Wrapper construction, aliasing and downcast, on detached handles of
\* every class.
Next ==
    \/ Create(NativeClasses, {})
    \/ FromRaw(Types)
    \/ FromRawUnchecked(Types)
    \/ Dup(Types)
    \/ FromElement(Types)
    \/ TryDowncast(Types)
    \/ FromHandle(Types)

Spec == Init /\ [][Next]_vars

\* Construction, callback registration and teardown, on trees of dialogs.
TeardownTypes == {"Handle", "Dialog"}

NextTeardown ==
    \/ Create({str_dialog}, live)
    \/ FromRaw(TeardownTypes)
    \/ RegisterCallback
    \/ Destroy(TeardownTypes)
    \/ Notify

SpecTeardown == Init /\ [][NextTeardown]_vars

\* The ways the handles may be attached: each is detached or attached to
\* a handle allocated before it.
Attachments ==
    {p \in [Handles -> Handles \cup {Null}] :
        \A h \in Handles : p[h] = Null \/ p[h] < h}

\* Attribute access, map, show, unmap and hide on dialogs, detached or
\* attached to one another, that have crossed from_raw; the native system
\* may hold any value for the attribute.
InitFwd ==
    /\ allocated = MaxHandles
    /\ live = Handles
    /\ classOf = [h \in Handles |-> c_str(str_dialog)]
    /\ parent \in Attachments
    /\ hook = Handles
    /\ regCalls = [h \in Handles |-> 1]
    /\ registry = <<>>
    /\ attrs \in [Handles -> [AttrNames -> NativeValues]]
    /\ last = Last("init", "none", Null, Unit, <<>>)

NextFwd ==
    \/ SetAttrib
    \/ Attrib
    \/ ClearAttrib
    \/ ResetAttrib
    \/ Unmap
    \/ Hide
    \/ Map
    \/ Show

SpecFwd == InitFwd /\ [][NextFwd]_vars

\* ------------------------------------------------------------- claims
DowncastOps == {"try_downcast", "from_handle"}

\* The live class name of h is exactly the target class name of ty.
ClassMatches(h, ty) == to_bytes(classOf[h]) = as_bytes(target_classname(ty))

\* C1: for every typed wrapper w whose target class name equals the live
\* class name of its handle, Handle::from_element(w) followed by
\* try_downcast to w's type returns Ok, and the wrapper returned holds the
\* raw handle of w.
C1_RoundTrip ==
    /\ \A w \in Wrappers(Types, live) :
         ClassMatches(raw(w), w.ty) =>
             LET r == try_downcast(from_element(w), w.ty, State)
             IN  /\ r.ret.tag = "Ok"
                 /\ r.ret.w.ty = w.ty
                 /\ raw(r.ret.w) = raw(w)
    /\ (last.op \in DowncastOps /\ ClassMatches(last.h, last.ty)) =>
           last.ret = Ret("Ok", Wrapper(last.ty, last.h))

C1_Witness ==
    /\ last.op = "try_downcast"
    /\ last.ty = "Button"
    /\ classOf[last.h] = c_str(str_button)
    /\ last.ret = Ret("Ok", Wrapper("Button", last.h))

\* C2: for a generic Handle whose live class name differs from the class
\* name of a target type other than Handle (shared prefix or suffix
\* included), try_downcast and from_handle return Err carrying a Handle with
\* the raw handle of the input; no hook is installed, nothing is destroyed.
C2_MismatchNonDestructive ==
    /\ \A h \in live, E \in Types \ {"Handle"} :
         ~ClassMatches(h, E) =>
             LET self == Wrapper("Handle", h)
                 r == try_downcast(self, E, State)
                 f == from_handle(E, self, State)
             IN  /\ r.ret = Ret("Err", Wrapper("Handle", h))
                 /\ r.s = State
                 /\ f.ret = Ret("Err", Wrapper("Handle", h))
                 /\ f.s = State
    /\ (/\ last.op \in DowncastOps
        /\ last.ty # "Handle"
        /\ ~ClassMatches(last.h, last.ty)) =>
           last.ret = Ret("Err", Wrapper("Handle", last.h))

\* A mismatch where the target class name is a proper prefix of the live one.
C2_Witness ==
    /\ last.op = "from_handle"
    /\ last.ty = "Image"
    /\ classOf[last.h] = c_str(str_imagergb)
    /\ last.ret = Ret("Err", Wrapper("Handle", last.h))
    /\ last.h \notin hook
    /\ last.h \in live

\* C3: for every generic Handle, whatever its live class name, try_downcast
\* to Handle returns Ok with the same raw handle: the target class name
\* "__iuprusthandle" makes the comparison succeed.
C3_SentinelUniversal ==
    /\ target_classname("Handle") = str_iuprusthandle
    /\ \A h \in live :
         LET r == try_downcast(Wrapper("Handle", h), "Handle", State)
         IN  r.ret = Ret("Ok", Wrapper("Handle", h))
    /\ (last.op \in DowncastOps /\ last.ty = "Handle") =>
           last.ret = Ret("Ok", Wrapper("Handle", last.h))

C3_Witness ==
    /\ last.op = "try_downcast"
    /\ last.ty = "Handle"
    /\ classOf[last.h] = c_str(str_flatbutton)
    /\ last.ret = Ret("Ok", Wrapper("Handle", last.h))

\* C4: from_raw with a null raw handle panics: it produces no wrapper and
\* makes no native registration call; the set of installed hooks and the
\* callback registry are as they were.
C4_NullHandleFatal ==
    [][(last'.op = "from_raw" /\ last'.h = Null) =>
          /\ last'.ret = Panic
          /\ last'.ret.w = NoWrapper
          /\ regCalls' = regCalls
          /\ hook' = hook
          /\ registry' = registry]_vars

C4_Witness ==
    /\ last.op = "from_raw"
    /\ last.h = Null
    /\ last.ret = Panic
    /\ hook # {}
    /\ registry # <<>>

\* Number of times h occurs in the sequence q.
Occurrences(q, h) == Cardinality({i \in 1..Len(q) : q[i] = h})

\* C5: when a destroy tears down a handle h that has passed through
\* from_raw (the handle destroyed, or one attached below it), the
\* destruction hook runs for h exactly once and afterwards the registry
\* holds no entry for h; the entries of the handles not torn down are
\* unchanged.
C5_DestroyPurgesRegistry ==
    [][last'.op = "destroy" =>
          LET torn == live \ live'
          IN  /\ torn = Subtree(last'.h, State)
              /\ last'.h \in torn
              /\ \A h \in torn :
                   regCalls[h] >= 1 =>
                       /\ Occurrences(last'.fired, h) = 1
                       /\ h \notin DOMAIN registry'
              /\ \A h \in Handles \ torn :
                   /\ (h \in DOMAIN registry') = (h \in DOMAIN registry)
                   /\ h \in DOMAIN registry => registry'[h] = registry[h]]_vars

\* A destroy of a parent that tore down its child too, both hooked and both
\* with callbacks registered: both entries are gone.
C5_Witness ==
    /\ last.op = "destroy"
    /\ last.h = 1
    /\ last.fired = <<2, 1>>
    /\ last.purged = {1, 2}
    /\ live = {}
    /\ registry = <<>>

\* C8: the destruction notification, invoked for a handle that has no
\* registry entry (none was ever made, or the hook already ran for it),
\* returns the default callback result and leaves the registry, and all
\* else, unchanged; after a notification the handle has no entry, so a
\* second one is such a call.
C8_HookIdempotent ==
    /\ [](last.op = "notify" =>
            /\ last.ret.tag = "Default"
            /\ last.h \notin DOMAIN registry)
    /\ [][(last'.op = "notify" /\ last'.h \notin DOMAIN registry) =>
            /\ registry' = registry
            /\ UNCHANGED <<allocated, live, classOf, parent, hook, regCalls>>]_vars

\* The hook already ran for the handle when it was destroyed, and runs
\* again while other handles have entries.
C8_Witness ==
    /\ last.op = "notify"
    /\ last.h \notin live
    /\ regCalls[last.h] >= 1
    /\ last.ret.tag = "Default"
    /\ last.purged = {}
    /\ registry # <<>>

\* C6, as stated: across any sequence of operations, repeated from_raw
\* calls on the same raw handle included, the destruction notification of a
\* handle is installed exactly once: the native registration is called at
\* most once for it.
C6_InstalledExactlyOnce ==
    \A h \in Handles : regCalls[h] <= 1

\* C6, amended: the destruction notification of a handle is installed at
\* the moment the handle first crosses from_raw and stays installed while
\* the handle lives; every from_raw call on a handle that is not null makes
\* exactly one native registration call for it, the first as any later one,
\* and nothing else makes one.
C6_InstalledAtEveryFromRaw ==
    /\ [](\A h \in live : (regCalls[h] >= 1) = (h \in hook))
    /\ [](last.op = "from_raw" /\ last.h \in live => last.h \in hook)
    /\ [][\A h \in Handles :
            /\ regCalls'[h] # regCalls[h] =>
                   /\ last'.op = "from_raw"
                   /\ last'.h = h
                   /\ regCalls'[h] = regCalls[h] + 1
            /\ (h \in hook /\ h \in live') => h \in hook']_vars
    /\ [][(last'.op = "from_raw" /\ last'.h # Null) =>
            /\ last'.ret = Ret("Value", Wrapper(last'.ty, last'.h))
            /\ regCalls'[last'.h] = regCalls[last'.h] + 1]_vars

\* A second from_raw on a handle: a second registration call.
C6_Witness ==
    /\ last.op = "from_raw"
    /\ last.h \in hook
    /\ regCalls[last.h] = 2

AliasOps ==
    {"from_raw_unchecked", "dup", "from_element", "try_downcast", "from_handle"}

\* C7: creating an alias through from_raw_unchecked, dup,
\* Handle::from_element, try_downcast or from_handle makes no native
\* registration call: after one from_raw on a handle the count for it is
\* still one, and the installed hooks are the same.
C7_AliasingNeverReinstalls ==
    [][last'.op \in AliasOps =>
          /\ regCalls' = regCalls
          /\ hook' = hook]_vars

\* A successful downcast to a typed wrapper of a handle that crossed
\* from_raw once.
C7_Witness ==
    /\ last.op = "try_downcast"
    /\ last.ret = Ret("Ok", Wrapper("Button", last.h))
    /\ regCalls[last.h] = 1
    /\ hook = {last.h}

\* C10: attrib(name) returns None exactly when the native get_attribute
\* returns null for the handle and the name, and Some(value) otherwise: the
\* empty native string gives Some(""); after clear_attrib has forwarded a
\* null value, attrib on any wrapper of the handle answers None, as the
\* native system does.
C10_AttribAbsence ==
    /\ (last.op = "attrib" /\ last.ret # Panic) =>
         LET cvalue == attrs[last.h][c_str(last.name)]
         IN  /\ (last.ret.tag = "None") = (cvalue = NullPtr)
             /\ cvalue # NullPtr =>
                    /\ last.ret.tag = "Some"
                    /\ last.val = string_from_c_str(cvalue)
             /\ cvalue = c_str(<<>>) => last.val = <<>>
    /\ (last.op = "clear_attrib" /\ last.ret = Unit) =>
         /\ attrs[last.h][c_str(last.name)] = NullPtr
         /\ \A ty \in Types :
              attrib(Wrapper(ty, last.h), last.name, State).ret.tag = "None"

\* attrib on an attribute the native system holds the empty string for.
C10_Witness ==
    /\ last.op = "attrib"
    /\ last.ret.tag = "Some"
    /\ last.val = <<>>
    /\ attrs[last.h][c_str(last.name)] = c_str(<<>>)

====
